---- MODULE Spec2Model ----
(***************************************************************************)
(* A model of two parts of cloudbridge:                                    *)
(*   - the OpenStack resources (instance, volume, snapshot, machine image):*)
(*     their status tables, their `state` property and their `refresh`;   *)
(*   - the AWS instance service: `create` and the block device mapping it  *)
(*     compiles from a launch configuration.                               *)
(* Three specifications share the variables: SpecState (the `state`        *)
(* property over the whole status tables), SpecRefresh (wrappers, payloads *)
(* and the provider's view of them) and SpecLaunch (AWSInstanceService).   *)
(***************************************************************************)
EXTENDS Integers, Sequences, FiniteSets, TLC

VARIABLES
    probe,      \* SpecState: one resource whose state is read
    kind,       \* SpecRefresh: the resource class of this run
    remote,     \* SpecRefresh: what the provider holds, per id
    heap,       \* SpecRefresh: the payload objects (_os_instance, _volume, ...)
    ref,        \* SpecRefresh: the payload each wrapper object points to
    last,       \* SpecRefresh: the operation that led to this state
    zone,               \* SpecLaunch: create's zone argument
    launch_config,      \* SpecLaunch: create's launch_config argument
    pc,                 \* SpecLaunch: where create stands
    zone_name,          \* SpecLaunch: create's local zone_name
    idx,                \* SpecLaunch: the entry the for loop is at
    bdm,                \* SpecLaunch: the BlockDeviceMapping under construction
    bd_types,           \* SpecLaunch: per entry done, its BlockDeviceType and slot
    next_letter,        \* SpecLaunch: letters the iterator has handed out
    ephemeral_counter,  \* SpecLaunch: the local ephemeral_counter
    net_id,             \* SpecLaunch: create's local net_id
    calls,              \* SpecLaunch: the calls made on ec2_conn, in order
    result,             \* SpecLaunch: what create returned or raised
    swift,      \* SpecDelete: the names of the objects the container holds
    cbobjects,  \* SpecDelete: the names callers hold a container object for
    deleted     \* SpecDelete: the last delete call and what it returned

stateVars == <<probe>>
refreshVars == <<kind, remote, heap, ref, last>>
launchVars == <<zone, launch_config, pc, zone_name, idx, bdm, bd_types,
                next_letter, ephemeral_counter, net_id, calls, result>>
deleteVars == <<swift, cbobjects, deleted>>
vars == <<probe, kind, remote, heap, ref, last, zone, launch_config, pc,
          zone_name, idx, bdm, bd_types, next_letter, ephemeral_counter,
          net_id, calls, result, swift, cbobjects, deleted>>

----------------------------------------------------------------------------
(* Bounds *)

NumObjs == 2        \* wrapper objects held by callers
NumStatuses == 2    \* table keys (in table order) the provider emits in SpecRefresh
MaxEntries == 3     \* entries of a launch configuration: block devices and net ids

None == "None"

----------------------------------------------------------------------------
(* The status tables, in source order: <<raw status, canonical state>> *)

IMAGE_STATE_MAP == <<
    <<"QUEUED", "PENDING">>,
    <<"SAVING", "PENDING">>,
    <<"ACTIVE", "AVAILABLE">>,
    <<"KILLED", "ERROR">>,
    <<"DELETED", "ERROR">>,
    <<"PENDING_DELETE", "ERROR">> >>

INSTANCE_STATE_MAP == <<
    <<"ACTIVE", "RUNNING">>,
    <<"BUILD", "PENDING">>,
    <<"DELETED", "TERMINATED">>,
    <<"ERROR", "ERROR">>,
    <<"HARD_REBOOT", "REBOOTING">>,
    <<"PASSWORD", "PENDING">>,
    <<"PAUSED", "STOPPED">>,
    <<"REBOOT", "REBOOTING">>,
    <<"REBUILD", "CONFIGURING">>,
    <<"RESCUE", "CONFIGURING">>,
    <<"RESIZE", "CONFIGURING">>,
    <<"REVERT_RESIZE", "CONFIGURING">>,
    <<"SOFT_DELETED", "STOPPED">>,
    <<"STOPPED", "STOPPED">>,
    <<"SUSPENDED", "STOPPED">>,
    <<"SHUTOFF", "STOPPED">>,
    <<"UNKNOWN", "UNKNOWN">>,
    <<"VERIFY_RESIZE", "CONFIGURING">> >>

VOLUME_STATE_MAP == <<
    <<"creating", "CREATING">>,
    <<"available", "AVAILABLE">>,
    <<"attaching", "CONFIGURING">>,
    <<"in-use", "IN_USE">>,
    <<"deleting", "CONFIGURING">>,
    <<"error", "ERROR">>,
    <<"error_deleting", "ERROR">>,
    <<"backing-up", "CONFIGURING">>,
    <<"restoring-backup", "CONFIGURING">>,
    <<"error_restoring", "ERROR">>,
    <<"error_extending", "ERROR">> >>

SNAPSHOT_STATE_MAP == <<
    <<"creating", "PENDING">>,
    <<"available", "AVAILABLE">>,
    <<"deleting", "CONFIGURING">>,
    <<"error", "ERROR">>,
    <<"error_deleting", "ERROR">> >>

Kinds == {"instance", "volume", "snapshot", "image"}

STATE_MAP(k) ==
    CASE k = "instance" -> INSTANCE_STATE_MAP
      [] k = "volume" -> VOLUME_STATE_MAP
      [] k = "snapshot" -> SNAPSHOT_STATE_MAP
      [] k = "image" -> IMAGE_STATE_MAP

Keys(map) == {map[i][1] : i \in DOMAIN map}

\* dict.get(key, default)
DictGet(map, key, default) ==
    IF key \in Keys(map)
    THEN map[CHOOSE i \in DOMAIN map : map[i][1] = key][2]
    ELSE default

\* INSTANCE_STATE_MAP[status] in place of .get(status, UNKNOWN): a missing key
\* raises KeyError
InstanceStateIndexed(status) ==
    IF status \in Keys(INSTANCE_STATE_MAP)
    THEN DictGet(INSTANCE_STATE_MAP, status, "UNKNOWN")
    ELSE "KeyError"

InstanceState(status) == DictGet(INSTANCE_STATE_MAP, status, "UNKNOWN")

VolumeState(status) == DictGet(VOLUME_STATE_MAP, status, "UNKNOWN")

SnapshotState(status) == DictGet(SNAPSHOT_STATE_MAP, status, "UNKNOWN")

ImageState(status) == DictGet(IMAGE_STATE_MAP, status, "UNKNOWN")

\* the `state` property of a wrapper of class k whose payload holds `status`
state(k, status) ==
    CASE k = "instance" -> InstanceState(status)
      [] k = "volume" -> VolumeState(status)
      [] k = "snapshot" -> SnapshotState(status)
      [] k = "image" -> ImageState(status)

----------------------------------------------------------------------------
(* SpecState: the `state` property, over every status of every table *)

NonKeys == {"unknown", "bogus", None}

AllStatuses == UNION {Keys(STATE_MAP(k)) : k \in Kinds} \cup NonKeys

\* a caller reads resource.state
ReadState ==
    /\ probe.state = "unread"
    /\ probe' = [probe EXCEPT !.state = state(probe.kind, probe.status)]
    /\ UNCHANGED refreshVars
    /\ UNCHANGED launchVars
    /\ UNCHANGED deleteVars

----------------------------------------------------------------------------
(* SpecRefresh: wrappers, their payloads, and the provider *)

Ids == {"id-1"}
Names == {"n1", "n2"}
Objs == 1..NumObjs
Cells == {<<"payload", i>> : i \in 1..NumObjs}

NotFound == [found |-> FALSE]    \* what the services' get(id) returns for an unknown id
NoPayload == [payload |-> FALSE] \* a heap cell that holds no payload
Null == <<>>                     \* a wrapper that has not been constructed

\* the raw statuses the provider emits in SpecRefresh
EmittedStatuses(k) == {STATE_MAP(k)[i][1] : i \in 1..NumStatuses} \cup {"bogus"}

RemotePayloads(k, id) ==
    [id : {id}, name : Names, status : EmittedStatuses(k)]

\* the cached view a caller sees through wrapper o
View(o) == heap[ref[o]]

\* a cell no wrapper other than o points to (the lowest one)
FreshCell(o) ==
    LET free == {c \in Cells : \A p \in Objs \ {o} : ref[p] # c}
    IN CHOOSE c \in free : \A d \in free : c[2] <= d[2]

\* payloads no wrapper points to are garbage
Collect(h, r) ==
    [c \in Cells |-> IF \E p \in Objs : r[p] = c THEN h[c] ELSE NoPayload]

Op(name, o, found) ==
    [op |-> name, obj |-> o, found |-> found, again |-> FALSE,
     recovered |-> FALSE]

\* the provider's get(id) hands out a wrapper around a freshly fetched payload
Wrap(o, id) ==
    /\ ref[o] = Null
    /\ remote[id] # NotFound
    /\ LET c == FreshCell(o) IN
        /\ ref' = [ref EXCEPT ![o] = c]
        /\ heap' = [heap EXCEPT ![c] = remote[id]]
    /\ last' = Op("wrap", o, TRUE)
    /\ UNCHANGED <<probe, kind, remote>>
    /\ UNCHANGED launchVars
    /\ UNCHANGED deleteVars

\* OpenStackMachineImage(provider, other_image): the new wrapper takes the
\* other wrapper's payload object itself, not a copy of it
CopyImage(o, src) ==
    /\ kind = "image"
    /\ ref[o] = Null
    /\ ref[src] # Null
    /\ ref' = [ref EXCEPT ![o] = ref[src]]
    /\ last' = Op("copy", o, TRUE)
    /\ UNCHANGED <<probe, kind, remote, heap>>
    /\ UNCHANGED launchVars
    /\ UNCHANGED deleteVars

\* instance.create_image(name): the provider registers a new image, images.get
\* wraps its payload, and the returned wrapper takes that payload
create_image(o, id, name, status) ==
    /\ kind = "image"
    /\ ref[o] = Null
    /\ remote[id] = NotFound
    /\ remote' = [remote EXCEPT ![id] = [id |-> id, name |-> name, status |-> status]]
    /\ LET c == FreshCell(o) IN
        /\ ref' = [ref EXCEPT ![o] = c]
        /\ heap' = [heap EXCEPT ![c] = remote'[id]]
    /\ last' = Op("create_image", o, TRUE)
    /\ UNCHANGED <<probe, kind>>
    /\ UNCHANGED launchVars
    /\ UNCHANGED deleteVars

\* the provider's side changes: a status or name change, a deletion, or an id
\* becoming visible
RemoteChange(id, p) ==
    /\ remote[id] # p
    /\ remote' = [remote EXCEPT ![id] = p]
    /\ last' = Op("remote", 0, FALSE)
    /\ UNCHANGED <<probe, kind, heap, ref>>
    /\ UNCHANGED launchVars
    /\ UNCHANGED deleteVars

\* wrapper o holds the 'unknown' a not-found refresh left, and the provider
\* has the resource again
Recovers(o) == View(o).status = "unknown" /\ remote[View(o).id] # NotFound

\* refresh with the found branch dropped: the status is set to 'unknown'
\* whatever get returned
refresh_always_unknown(o) ==
    /\ ref[o] # Null
    /\ heap' = [heap EXCEPT ![ref[o]].status = "unknown"]
    /\ last' = [op |-> "refresh", obj |-> o,
                found |-> remote[View(o).id] # NotFound,
                again |-> last.op = "refresh" /\ last.obj = o,
                recovered |-> Recovers(o)]
    /\ UNCHANGED <<probe, kind, remote, ref>>
    /\ UNCHANGED launchVars
    /\ UNCHANGED deleteVars

\* refresh whose not-found branch replaces the payload by an empty one
refresh_clobber(o) ==
    /\ ref[o] # Null
    /\ LET found == remote[View(o).id] IN
        /\ IF found # NotFound
           THEN LET c == FreshCell(o) IN
                /\ ref' = [ref EXCEPT ![o] = c]
                /\ heap' = Collect([heap EXCEPT ![c] = found], ref')
           ELSE /\ heap' = [heap EXCEPT ![ref[o]] =
                        [id |-> View(o).id, name |-> None, status |-> "unknown"]]
                /\ UNCHANGED ref
        /\ last' = [op |-> "refresh", obj |-> o, found |-> found # NotFound,
                    again |-> last.op = "refresh" /\ last.obj = o,
                    recovered |-> Recovers(o)]
    /\ UNCHANGED <<probe, kind, remote>>
    /\ UNCHANGED launchVars
    /\ UNCHANGED deleteVars

\* refresh whose found branch patches the status alone when it differs, and
\* takes the whole payload only when it does not
refresh_merge(o) ==
    /\ ref[o] # Null
    /\ LET found == remote[View(o).id] IN
        /\ IF found # NotFound
           THEN IF found.status # View(o).status
                THEN /\ heap' = [heap EXCEPT ![ref[o]].status = found.status]
                     /\ UNCHANGED ref
                ELSE LET c == FreshCell(o) IN
                     /\ ref' = [ref EXCEPT ![o] = c]
                     /\ heap' = Collect([heap EXCEPT ![c] = found], ref')
           ELSE /\ heap' = [heap EXCEPT ![ref[o]].status = "unknown"]
                /\ UNCHANGED ref
        /\ last' = [op |-> "refresh", obj |-> o, found |-> found # NotFound,
                    again |-> last.op = "refresh" /\ last.obj = o,
                    recovered |-> Recovers(o)]
    /\ UNCHANGED <<probe, kind, remote>>
    /\ UNCHANGED launchVars
    /\ UNCHANGED deleteVars

\* refresh that queries the provider no more once a refresh has set the
\* status to 'unknown'
refresh_absorbing(o) ==
    /\ ref[o] # Null
    /\ LET found == remote[View(o).id] IN
        /\ IF found # NotFound /\ View(o).status # "unknown"
           THEN LET c == FreshCell(o) IN
                /\ ref' = [ref EXCEPT ![o] = c]
                /\ heap' = Collect([heap EXCEPT ![c] = found], ref')
           ELSE /\ heap' = [heap EXCEPT ![ref[o]].status = "unknown"]
                /\ UNCHANGED ref
        /\ last' = [op |-> "refresh", obj |-> o, found |-> found # NotFound,
                    again |-> last.op = "refresh" /\ last.obj = o,
                    recovered |-> Recovers(o)]
    /\ UNCHANGED <<probe, kind, remote>>
    /\ UNCHANGED launchVars
    /\ UNCHANGED deleteVars

\* refresh(): re-query the provider for the cached id
refresh(o) ==
    /\ ref[o] # Null
    /\ LET found == remote[View(o).id] IN
        /\ IF found # NotFound
           THEN LET c == FreshCell(o) IN
                /\ ref' = [ref EXCEPT ![o] = c]
                /\ heap' = Collect([heap EXCEPT ![c] = found], ref')
           ELSE /\ heap' = [heap EXCEPT ![ref[o]].status = "unknown"]
                /\ UNCHANGED ref
        /\ last' = [op |-> "refresh", obj |-> o, found |-> found # NotFound,
                    again |-> last.op = "refresh" /\ last.obj = o,
                    recovered |-> Recovers(o)]
    /\ UNCHANGED <<probe, kind, remote>>
    /\ UNCHANGED launchVars
    /\ UNCHANGED deleteVars

InstanceRefresh(o) == kind = "instance" /\ refresh(o)

VolumeRefresh(o) == kind = "volume" /\ refresh(o)

SnapshotRefresh(o) == kind = "snapshot" /\ refresh(o)

ImageRefresh(o) == kind = "image" /\ refresh(o)

----------------------------------------------------------------------------
(* SpecLaunch: AWSInstanceService.create and the block device mapping *)

NoSize == 0     \* a size of None: `if device.size` takes it as false

\* the objects a device's source can be, by the interface isinstance finds
SnapshotSource == [type |-> "Snapshot", id |-> "snap-1"]
VolumeSource == [type |-> "Volume", id |-> "vol-0"]
ImageSource == [type |-> "MachineImage", id |-> "ami-1"]
NoSource == [type |-> "NoneType", id |-> None]

\* launch_config.block_devices entries
EphemeralDevices ==
    [is_volume : {FALSE}, is_root : {FALSE}, source : {NoSource},
     size : {NoSize}, delete_on_terminate : {FALSE}]

VolumeDevices ==
    [is_volume : {TRUE}, is_root : BOOLEAN, source : {NoSource},
     size : {1, 2}, delete_on_terminate : {TRUE}]
    \cup
    [is_volume : {TRUE}, is_root : BOOLEAN,
     source : {SnapshotSource, VolumeSource, ImageSource},
     size : {NoSize}, delete_on_terminate : {TRUE}]

Devices == EphemeralDevices \cup VolumeDevices

NetIds == {"net-1", "net-2"}

SeqsUpTo(S, n) == UNION {[1..k -> S] : k \in 0..n}

\* a BaseLaunchConfig object
LaunchConfigs ==
    {[block_devices |-> b, net_ids |-> n] :
        <<b, n>> \in {<<b, n>> \in SeqsUpTo(Devices, MaxEntries)
                                    \X SeqsUpTo(NetIds, 2) :
                        Len(b) + Len(n) <= MaxEntries}}

NoLaunchConfig == [none |-> TRUE]   \* launch_config=None

\* a PlacementZone object, and its name
PLACEMENT_ZONE == "<PlacementZone us-east-1b>"
PlacementZoneName == "us-east-1b"
Zones == {None, "us-east-1a", PLACEMENT_ZONE}

\* zone.name if isinstance(zone, PlacementZone) else zone
ZoneName(z) == IF z = PLACEMENT_ZONE THEN PlacementZoneName ELSE z

\* string.ascii_lowercase
ascii_lowercase ==
    <<"a", "b", "c", "d", "e", "f", "g", "h", "i", "j", "k", "l", "m",
      "n", "o", "p", "q", "r", "s", "t", "u", "v", "w", "x", "y", "z">>

\* list(string.ascii_lowercase[6:])
LETTERS == SubSeq(ascii_lowercase, 7, Len(ascii_lowercase))

\* BlockDeviceType()
BlockDeviceType ==
    [ephemeral_name |-> None, snapshot_id |-> None, volume_id |-> None,
     delete_on_terminate |-> FALSE, size |-> NoSize]

NoMapping == [none |-> TRUE]        \* bdm = None
EmptyMapping == [k \in {} |-> BlockDeviceType]      \* BlockDeviceMapping()

\* bdm[key] = bd
Store(map, key, bd) ==
    [k \in DOMAIN map \cup {key} |-> IF k = key THEN bd ELSE map[k]]

\* the ids ec2_conn.create_volume gives the volumes it creates
NewVolumeId(n) == "vol-" \o ToString(n)

CreateVolumeCalls == {i \in DOMAIN calls : calls[i].fn = "create_volume"}

\* AWSVolumeService.create with a zone made up when none is given
VolumeCreateDefaultZone(name, size, z, snapshot) ==
    [fn |-> "create_volume", size |-> size,
     zone |-> IF z = None THEN "us-east-1a" ELSE ZoneName(z),
     snapshot |-> snapshot]

\* AWSVolumeService.create(name, size, zone, snapshot=None): the call it makes
\* on ec2_conn (snapshot is passed on as it is: the isinstance test is on zone)
VolumeCreate(name, size, z, snapshot) ==
    [fn |-> "create_volume", size |-> size, zone |-> ZoneName(z),
     snapshot |-> snapshot]

\* the slot a volume-backed device is stored under
DeviceKey(device) ==
    IF device.is_root THEN "/dev/sda1" ELSE "sd" \o LETTERS[next_letter + 1]

\* the isinstance tests swapped: a snapshot's id lands in volume_id and a
\* volume's id in snapshot_id
VolumeBlockDeviceSwapped(device, new_vol_id) ==
    LET sourced ==
            CASE device.source.type = "Snapshot" ->
                    [BlockDeviceType EXCEPT !.volume_id = device.source.id]
              [] device.source.type = "Volume" ->
                    [BlockDeviceType EXCEPT !.snapshot_id = device.source.id]
              [] device.source.type = "MachineImage" -> BlockDeviceType
              [] OTHER -> [BlockDeviceType EXCEPT !.volume_id = new_vol_id]
        flagged == [sourced EXCEPT
                      !.delete_on_terminate = device.delete_on_terminate]
    IN IF device.size # NoSize
       THEN [flagged EXCEPT !.size = device.size]
       ELSE flagged

\* the fields set on bd_type for a volume-backed device; volume_id is the id
\* of the volume created for it, if one was
VolumeBlockDevice(device, new_vol_id) ==
    LET sourced ==
            CASE device.source.type = "Snapshot" ->
                    [BlockDeviceType EXCEPT !.snapshot_id = device.source.id]
              [] device.source.type = "Volume" ->
                    [BlockDeviceType EXCEPT !.volume_id = device.source.id]
              [] device.source.type = "MachineImage" -> BlockDeviceType
              [] OTHER -> [BlockDeviceType EXCEPT !.volume_id = new_vol_id]
        flagged == [sourced EXCEPT
                      !.delete_on_terminate = device.delete_on_terminate]
    IN IF device.size # NoSize
       THEN [flagged EXCEPT !.size = device.size]
       ELSE flagged

\* the MachineImage test left out: an image-sourced device reaches the else
\* branch and gets a volume created
NeedsNewVolumeForImage(device) ==
    /\ device.is_volume
    /\ device.source.type \notin {"Snapshot", "Volume"}

\* whether the loop body creates a volume for the device
NeedsNewVolume(device) ==
    /\ device.is_volume
    /\ device.source.type \notin {"Snapshot", "Volume", "MachineImage"}

\* create that passes an empty BlockDeviceMapping() when there is no
\* launch_config
StartEmptyMapping ==
    /\ pc = "called"
    /\ zone_name' = ZoneName(zone)
    /\ IF launch_config # NoLaunchConfig
       THEN /\ pc' = "compile"
            /\ bdm' = EmptyMapping
            /\ UNCHANGED net_id
       ELSE /\ pc' = "run"
            /\ bdm' = EmptyMapping
            /\ net_id' = None
    /\ UNCHANGED <<zone, launch_config, idx, bd_types, next_letter,
                   ephemeral_counter, calls, result>>
    /\ UNCHANGED <<probe, kind, remote, heap, ref, last>>
    /\ UNCHANGED deleteVars

\* create(...): the arguments are converted; with a launch_config the block
\* device mapping is compiled first
Start ==
    /\ pc = "called"
    /\ zone_name' = ZoneName(zone)
    /\ IF launch_config # NoLaunchConfig
       THEN /\ pc' = "compile"
            /\ bdm' = EmptyMapping
            /\ UNCHANGED net_id
       ELSE /\ pc' = "run"
            /\ bdm' = NoMapping
            /\ net_id' = None
    /\ UNCHANGED <<zone, launch_config, idx, bd_types, next_letter,
                   ephemeral_counter, calls, result>>
    /\ UNCHANGED <<probe, kind, remote, heap, ref, last>>
    /\ UNCHANGED deleteVars

\* the create_volume calls made for entry i of block_devices
CallsFor(i) == {c \in CreateVolumeCalls : calls[c].entry = i}

\* the loop body with a create call that failed once tried a second time
ProcessDeviceRetry(created) ==
    /\ pc = "compile"
    /\ idx <= Len(launch_config.block_devices)
    /\ LET device == launch_config.block_devices[idx] IN
       IF ~device.is_volume
       THEN \* ephemeral: the name is set on a bd_type no slot holds
            /\ created
            /\ bd_types' = Append(bd_types,
                    [key |-> None,
                     bd |-> [BlockDeviceType EXCEPT !.ephemeral_name =
                                "ephemeral" \o ToString(ephemeral_counter)]])
            /\ idx' = idx + 1
            /\ UNCHANGED <<pc, bdm, next_letter, calls, result>>
       ELSE IF ~device.is_root /\ next_letter >= Len(LETTERS)
       THEN \* next() on the exhausted iterator
            /\ created
            /\ pc' = "raised"
            /\ result' = "StopIteration"
            /\ UNCHANGED <<idx, bdm, bd_types, next_letter, calls>>
       ELSE LET key == DeviceKey(device)
                letters == IF device.is_root THEN next_letter ELSE next_letter + 1
                call == VolumeCreate("", device.size, zone_name, None)
                n == Cardinality({i \in CreateVolumeCalls :
                                    calls[i].result # "raised"}) + 1
            IN IF NeedsNewVolume(device) /\ ~created
               THEN /\ calls' = Append(calls,
                         call @@ [entry |-> idx, result |-> "raised"])
                    /\ IF CallsFor(idx) = {}
                       THEN \* first failure: the create call is tried again
                            UNCHANGED <<pc, result, bdm, next_letter>>
                       ELSE /\ pc' = "raised"
                            /\ result' = "EC2ResponseError"
                            /\ bdm' = Store(bdm, key, BlockDeviceType)
                            /\ next_letter' = letters
                    /\ UNCHANGED <<idx, bd_types>>
               ELSE /\ created
                    /\ calls' = IF NeedsNewVolume(device)
                                THEN Append(calls, call @@
                                       [entry |-> idx, result |-> NewVolumeId(n)])
                                ELSE calls
                    /\ LET bd == VolumeBlockDevice(device, NewVolumeId(n)) IN
                       /\ bdm' = Store(bdm, key, bd)
                       /\ bd_types' = Append(bd_types, [key |-> key, bd |-> bd])
                    /\ next_letter' = letters
                    /\ idx' = idx + 1
                    /\ UNCHANGED <<pc, result>>
    /\ UNCHANGED <<zone, launch_config, zone_name, ephemeral_counter, net_id>>
    /\ UNCHANGED <<probe, kind, remote, heap, ref, last>>
    /\ UNCHANGED deleteVars

\* one pass of the for loop of _process_block_device_mappings; created tells
\* whether the create_volume call, if one is made, returns a volume or raises
ProcessDevice(created) ==
    /\ pc = "compile"
    /\ idx <= Len(launch_config.block_devices)
    /\ LET device == launch_config.block_devices[idx] IN
       IF ~device.is_volume
       THEN \* ephemeral: the name is set on a bd_type no slot holds
            /\ created
            /\ bd_types' = Append(bd_types,
                    [key |-> None,
                     bd |-> [BlockDeviceType EXCEPT !.ephemeral_name =
                                "ephemeral" \o ToString(ephemeral_counter)]])
            /\ idx' = idx + 1
            /\ UNCHANGED <<pc, bdm, next_letter, calls, result>>
       ELSE IF ~device.is_root /\ next_letter >= Len(LETTERS)
       THEN \* next() on the exhausted iterator
            /\ created
            /\ pc' = "raised"
            /\ result' = "StopIteration"
            /\ UNCHANGED <<idx, bdm, bd_types, next_letter, calls>>
       ELSE LET key == DeviceKey(device)
                letters == IF device.is_root THEN next_letter ELSE next_letter + 1
                call == VolumeCreate("", device.size, zone_name, None)
                n == Cardinality({i \in CreateVolumeCalls :
                                    calls[i].result # "raised"}) + 1
            IN IF NeedsNewVolume(device) /\ ~created
               THEN /\ calls' = Append(calls,
                         call @@ [entry |-> idx, result |-> "raised"])
                    /\ pc' = "raised"
                    /\ result' = "EC2ResponseError"
                    /\ bdm' = Store(bdm, key, BlockDeviceType)
                    /\ next_letter' = letters
                    /\ UNCHANGED <<idx, bd_types>>
               ELSE /\ created
                    /\ calls' = IF NeedsNewVolume(device)
                                THEN Append(calls, call @@
                                       [entry |-> idx, result |-> NewVolumeId(n)])
                                ELSE calls
                    /\ LET bd == VolumeBlockDevice(device, NewVolumeId(n)) IN
                       /\ bdm' = Store(bdm, key, bd)
                       /\ bd_types' = Append(bd_types, [key |-> key, bd |-> bd])
                    /\ next_letter' = letters
                    /\ idx' = idx + 1
                    /\ UNCHANGED <<pc, result>>
    /\ UNCHANGED <<zone, launch_config, zone_name, ephemeral_counter, net_id>>
    /\ UNCHANGED <<probe, kind, remote, heap, ref, last>>
    /\ UNCHANGED deleteVars

\* the last net id in place of the first
get_net_id_last(config) ==
    IF Len(config.net_ids) > 0
    THEN config.net_ids[Len(config.net_ids)]
    ELSE None

\* launch_config.net_ids[0] if len(launch_config.net_ids) > 0 else None
get_net_id(config) ==
    IF Len(config.net_ids) > 0 THEN config.net_ids[1] ELSE None

\* the loop is over: the mapping is returned and the net id is read
EndCompile ==
    /\ pc = "compile"
    /\ idx > Len(launch_config.block_devices)
    /\ pc' = "run"
    /\ net_id' = get_net_id(launch_config)
    /\ UNCHANGED <<zone, launch_config, zone_name, idx, bdm, bd_types,
                   next_letter, ephemeral_counter, calls, result>>
    /\ UNCHANGED <<probe, kind, remote, heap, ref, last>>
    /\ UNCHANGED deleteVars

RunOutcomes == {"reservation", "empty", "raised"}

\* the name argument of create and the id of the instance of the reservation
InstanceName == "web-1"
INSTANCE_ID == "i-1"

\* the run_instances call create makes
RunInstancesCall(outcome) ==
    [fn |-> "run_instances", min_count |-> 1, max_count |-> 1,
         placement |-> zone_name, block_device_map |-> bdm,
         subnet_id |-> net_id, result |-> outcome]

\* successfully created volumes that no delete_volume call has removed
ExistingVolumes ==
    {calls[c].result : c \in {d \in CreateVolumeCalls : calls[d].result # "raised"}}
        \ {calls[c].volume_id : c \in {d \in DOMAIN calls :
                                             calls[d].fn = "delete_volume"}}

\* one run_instances call per compiled block device in place of a single one
RunInstancesPerDevice(outcome) ==
    /\ pc = "run"
    /\ calls' = calls \o [i \in 1..(IF idx > 2 THEN idx - 1 ELSE 1) |->
                            RunInstancesCall(outcome)]
    /\ CASE outcome = "raised" ->
              pc' = "raised" /\ result' = "EC2ResponseError"
         [] outcome = "empty" ->
              \* instance was never assigned: return instance fails
              pc' = "raised" /\ result' = "UnboundLocalError"
         [] outcome = "reservation" ->
              /\ pc' = "returned"
              /\ result' = [instance |-> INSTANCE_ID, name |-> InstanceName]
    /\ UNCHANGED <<zone, launch_config, zone_name, idx, bdm, bd_types,
                   next_letter, ephemeral_counter, net_id>>
    /\ UNCHANGED <<probe, kind, remote, heap, ref, last>>
    /\ UNCHANGED deleteVars

\* a failed run_instances followed by the deletion of the volumes the compile
\* created
RunInstancesCleanup(outcome) ==
    /\ pc = "run"
    /\ calls' = IF outcome = "raised"
                THEN Append(calls, RunInstancesCall(outcome)) \o
                     [i \in 1..Cardinality(CreateVolumeCalls) |->
                        [fn |-> "delete_volume", volume_id |-> NewVolumeId(i)]]
                ELSE Append(calls, RunInstancesCall(outcome))
    /\ CASE outcome = "raised" ->
              pc' = "raised" /\ result' = "EC2ResponseError"
         [] outcome = "empty" ->
              \* instance was never assigned: return instance fails
              pc' = "raised" /\ result' = "UnboundLocalError"
         [] outcome = "reservation" ->
              /\ pc' = "returned"
              /\ result' = [instance |-> INSTANCE_ID, name |-> InstanceName]
    /\ UNCHANGED <<zone, launch_config, zone_name, idx, bdm, bd_types,
                   next_letter, ephemeral_counter, net_id>>
    /\ UNCHANGED <<probe, kind, remote, heap, ref, last>>
    /\ UNCHANGED deleteVars

\* ec2_conn.run_instances(...): one call, whose outcome is a reservation, a
\* falsy reservation or an error; the instance of the reservation is wrapped
\* and named
RunInstances(outcome) ==
    /\ pc = "run"
    /\ calls' = Append(calls, RunInstancesCall(outcome))
    /\ CASE outcome = "raised" ->
              pc' = "raised" /\ result' = "EC2ResponseError"
         [] outcome = "empty" ->
              \* instance was never assigned: return instance fails
              pc' = "raised" /\ result' = "UnboundLocalError"
         [] outcome = "reservation" ->
              /\ pc' = "returned"
              /\ result' = [instance |-> INSTANCE_ID, name |-> InstanceName]
    /\ UNCHANGED <<zone, launch_config, zone_name, idx, bdm, bd_types,
                   next_letter, ephemeral_counter, net_id>>
    /\ UNCHANGED <<probe, kind, remote, heap, ref, last>>
    /\ UNCHANGED deleteVars

----------------------------------------------------------------------------
(* OpenStackContainerObject.delete *)

ObjectNames == {"a.txt", "b.txt", "c.txt"}

\* what swift.delete_object does: it returns, or raises a ClientException
\* that carries an http_status
Accepted == [raised |-> FALSE]
ClientException(status) == [raised |-> TRUE, http_status |-> status]
ErrorStatuses == {401, 403, 500, 503}

\* the outcomes the object store can give for a delete of name n
DeleteOutcomes(n) ==
    (IF n \in swift THEN {Accepted} ELSE {ClientException(404)})
        \cup {ClientException(e) : e \in ErrorStatuses}

NoDelete == [none |-> TRUE]

\* container.create_object(object_name): put_object, then get wraps it
create_object(n) ==
    /\ swift' = swift \cup {n}
    /\ cbobjects' = cbobjects \cup {n}
    /\ UNCHANGED deleted
    /\ UNCHANGED <<probe, kind, remote, heap, ref, last>>
    /\ UNCHANGED launchVars

\* the value delete returns: True in the except clause for a 404, False at
\* the end of the method otherwise
DeleteReturn(outcome) ==
    IF outcome.raised /\ outcome.http_status = 404 THEN TRUE ELSE FALSE

\* obj.delete() on the container object of name n
ObjectDelete(n, outcome) ==
    /\ n \in cbobjects
    /\ outcome \in DeleteOutcomes(n)
    /\ swift' = IF outcome.raised THEN swift ELSE swift \ {n}
    /\ deleted' = [name |-> n, outcome |-> outcome,
                   returned |-> DeleteReturn(outcome)]
    /\ UNCHANGED cbobjects
    /\ UNCHANGED <<probe, kind, remote, heap, ref, last>>
    /\ UNCHANGED launchVars

----------------------------------------------------------------------------
(* Initial states and specifications *)

IdleProbe == [kind |-> "instance", status |-> None, state |-> "unread"]

IdleRefresh ==
    /\ kind = "instance"
    /\ remote = [id \in Ids |-> NotFound]
    /\ heap = [c \in Cells |-> NoPayload]
    /\ ref = [o \in Objs |-> Null]
    /\ last = Op("init", 0, FALSE)

IdleLaunch ==
    /\ zone = None
    /\ launch_config = NoLaunchConfig
    /\ pc = "idle"
    /\ zone_name = None
    /\ idx = 1
    /\ bdm = NoMapping
    /\ bd_types = <<>>
    /\ next_letter = 0
    /\ ephemeral_counter = 0
    /\ net_id = None
    /\ calls = <<>>
    /\ result = None

IdleDelete ==
    /\ swift = {}
    /\ cbobjects = {}
    /\ deleted = NoDelete

InitState ==
    /\ probe \in [kind : Kinds, status : AllStatuses, state : {"unread"}]
    /\ IdleRefresh
    /\ IdleLaunch
    /\ IdleDelete

NextState == ReadState

SpecState == InitState /\ [][NextState]_vars

InitRefresh ==
    /\ probe = IdleProbe
    /\ kind \in Kinds
    /\ remote \in [Ids -> {NotFound}]
    /\ heap = [c \in Cells |-> NoPayload]
    /\ ref = [o \in Objs |-> Null]
    /\ last = Op("init", 0, FALSE)
    /\ IdleLaunch
    /\ IdleDelete

NextRefresh ==
    \/ \E o \in Objs, id \in Ids : Wrap(o, id)
    \/ \E o \in Objs, src \in Objs : CopyImage(o, src)
    \/ \E o \in Objs, id \in Ids, n \in Names, s \in EmittedStatuses(kind) :
          create_image(o, id, n, s)
    \/ \E id \in Ids : \E p \in RemotePayloads(kind, id) \cup {NotFound} :
          RemoteChange(id, p)
    \/ \E o \in Objs : InstanceRefresh(o)
    \/ \E o \in Objs : VolumeRefresh(o)
    \/ \E o \in Objs : SnapshotRefresh(o)
    \/ \E o \in Objs : ImageRefresh(o)

SpecRefresh == InitRefresh /\ [][NextRefresh]_vars

\* create has been called with a zone and a launch configuration, or none
InitLaunch ==
    /\ probe = IdleProbe
    /\ IdleRefresh
    /\ zone \in Zones
    /\ launch_config \in LaunchConfigs \cup {NoLaunchConfig}
    /\ pc = "called"
    /\ zone_name = None
    /\ idx = 1
    /\ bdm = NoMapping
    /\ bd_types = <<>>
    /\ next_letter = 0
    /\ ephemeral_counter = 0
    /\ net_id = "unassigned"
    /\ calls = <<>>
    /\ result = None
    /\ IdleDelete

NextLaunch ==
    \/ Start
    \/ \E created \in BOOLEAN : ProcessDevice(created)
    \/ EndCompile
    \/ \E outcome \in RunOutcomes : RunInstances(outcome)

SpecLaunch == InitLaunch /\ [][NextLaunch]_vars

\* an empty container, and no container object yet
InitDelete ==
    /\ probe = IdleProbe
    /\ IdleRefresh
    /\ IdleLaunch
    /\ IdleDelete

NextDelete ==
    \/ \E n \in ObjectNames : create_object(n)
    \/ \E n \in ObjectNames :
          \E outcome \in {Accepted} \cup
                {ClientException(e) : e \in ErrorStatuses \cup {404}} :
              ObjectDelete(n, outcome)

SpecDelete == InitDelete /\ [][NextDelete]_vars

----------------------------------------------------------------------------
(* Properties of `state` and `refresh` *)

\* C1: for every resource kind, reading the state of a resource whose raw
\* status is no key of the kind's table gives UNKNOWN and never raises; for a
\* status that is a key it gives exactly the state the table lists for it.
C1_StateTotalAndExact ==
    probe.state # "unread" =>
        LET map == STATE_MAP(probe.kind) IN
        /\ probe.state # "KeyError"
        /\ (probe.status \notin Keys(map) => probe.state = "UNKNOWN")
        /\ \A i \in DOMAIN map :
              map[i][1] = probe.status => probe.state = map[i][2]

C1_Witness ==
    /\ probe.state = "UNKNOWN"
    /\ probe.kind = "instance"
    /\ probe.status = "unknown"

\* C2: a refresh of a resource whose id the provider no longer knows does not
\* fail, leaves the state UNKNOWN, and keeps every cached field other than
\* the status (id, name) as it was before the call.
C2_NotFoundKeepsFields ==
    /\ [](\A o \in Objs : ref[o] # Null => ENABLED refresh(o))
    /\ [][\A o \in Objs :
            (/\ last'.op = "refresh"
             /\ last'.obj = o
             /\ remote[View(o).id] = NotFound)
            => /\ state(kind, View(o)'.status) = "UNKNOWN"
               /\ View(o)'.id = View(o).id
               /\ View(o)'.name = View(o).name]_vars

C2_Witness ==
    /\ last.op = "refresh"
    /\ ~last.found
    /\ state(kind, View(last.obj).status) = "UNKNOWN"
    /\ View(last.obj).name \in Names

\* C3: a second refresh of the same resource right after a first one, the
\* provider's side unchanged in between, leaves the cached view as the first
\* one left it, whether the provider knows the id or not.
C3_RefreshIdempotent ==
    [][\A o \in Objs :
        (/\ last.op = "refresh"
         /\ last.obj = o
         /\ last'.op = "refresh"
         /\ last'.obj = o)
        => View(o)' = View(o)]_vars

C3_Witness ==
    /\ last.op = "refresh"
    /\ last.again
    /\ ~last.found
    /\ View(last.obj).status = "unknown"

\* C4: a refresh of a resource whose id the provider knows replaces the whole
\* cached payload by the one the provider returned, and the state afterwards
\* is the normalization of the returned status.
C4_FoundReplacesPayload ==
    [][\A o \in Objs :
        (/\ last'.op = "refresh"
         /\ last'.obj = o
         /\ remote[View(o).id] # NotFound)
        => /\ View(o)' = remote[View(o).id]
           /\ state(kind, View(o)'.status)
                = state(kind, remote[View(o).id].status)]_vars

C4_Witness ==
    /\ last.op = "refresh"
    /\ last.found
    /\ View(last.obj) = remote[View(last.obj).id]
    /\ \E p \in Objs \ {last.obj} :
          /\ ref[p] # Null
          /\ View(p).id = View(last.obj).id
          /\ View(p).name # View(last.obj).name
          /\ View(p).status # View(last.obj).status

\* C5: a refresh of one resource object changes that object's cached view
\* alone: whatever another object held by a caller shows (its state and its
\* cached fields) is the same after the call, in the found and the not-found
\* case, also for an image object constructed from the refreshed one.
C5_RefreshFrame ==
    [][\A o \in Objs : \A p \in Objs \ {o} :
        (/\ last'.op = "refresh"
         /\ last'.obj = o
         /\ ref[p] # Null)
        => View(p)' = View(p)]_vars

\* C22: UNKNOWN reached through a not-found refresh is not absorbing: after
\* every refresh of an object, its state is the normalization of the status
\* the provider holds at that call when the resource exists (also when an
\* earlier refresh found it missing) and UNKNOWN when it does not; the
\* object's id is the same after the refresh as before it.
C22_UnknownNotAbsorbing ==
    [][\A o \in Objs :
        (/\ last'.op = "refresh"
         /\ last'.obj = o)
        => /\ View(o)'.id = View(o).id
           /\ state(kind, View(o)'.status) =
                 IF remote[View(o).id] # NotFound
                 THEN state(kind, remote[View(o).id].status)
                 ELSE "UNKNOWN"]_vars

C22_Witness ==
    /\ last.op = "refresh"
    /\ last.found
    /\ last.recovered
    /\ View(last.obj).status = remote[View(last.obj).id].status
    /\ state(kind, View(last.obj).status) # "UNKNOWN"

----------------------------------------------------------------------------
(* Properties of the block device mapping *)

BlockDevices == launch_config.block_devices

\* the entries marked root
RootEntries == {i \in DOMAIN BlockDevices : BlockDevices[i].is_root}

\* the non-root volume-backed entries, and the ephemeral ones
LetteredEntries ==
    {i \in DOMAIN BlockDevices :
        BlockDevices[i].is_volume /\ ~BlockDevices[i].is_root}

EphemeralEntries == {i \in DOMAIN BlockDevices : ~BlockDevices[i].is_volume}

\* how many entries of S come before entry i
Before(S, i) == Cardinality({j \in S : j < i})

\* _process_block_device_mappings has returned its mapping
Compiled == launch_config # NoLaunchConfig /\ pc \in {"run", "returned"}

\* C6: compiling a launch configuration with two or more entries marked root
\* fails with a validation error and makes no volume-creation call, wherever
\* the root entries stand and whatever comes before them.
C6_TwoRootsRejected ==
    (launch_config # NoLaunchConfig /\ Cardinality(RootEntries) >= 2) =>
        /\ CreateVolumeCalls = {}
        /\ ~Compiled
        /\ (pc = "raised" => result = "InvalidConfigurationException")

\* C7: a plan that compile returns has exactly one slot per input entry
\* (root, non-root volume and ephemeral alike) with at most one root slot:
\* the mapping has as many entries as launch_config.block_devices.
C7_OneSlotPerEntry ==
    Compiled =>
        /\ Cardinality(DOMAIN bdm) = Len(BlockDevices)
        /\ \A i \in DOMAIN BlockDevices :
              /\ bd_types[i].key \in DOMAIN bdm
              /\ bdm[bd_types[i].key] = bd_types[i].bd
        /\ \A i, j \in DOMAIN BlockDevices :
              bd_types[i].key = bd_types[j].key => i = j

\* C8: compiling N ephemeral-only entries gives a plan of N ephemeral
\* descriptors, the k-th entry (from 0) named ephemeral<k>.
C8_EphemeralsIndexed ==
    (/\ Compiled
     /\ EphemeralEntries = DOMAIN BlockDevices
     /\ Len(BlockDevices) >= 2) =>
        /\ Cardinality(DOMAIN bdm) = Len(BlockDevices)
        /\ \A i \in DOMAIN BlockDevices :
              /\ bd_types[i].bd.ephemeral_name = "ephemeral" \o ToString(i - 1)
              /\ \E k \in DOMAIN bdm : bdm[k] = bd_types[i].bd

\* C9: in a mixed configuration the root volume entry has the root slot, the
\* non-root volume entries have consecutive letters in input order whatever
\* stands between them, and the ephemeral entries are in the plan with
\* consecutive indices from 0 whatever stands between them.
C9_IndependentCounters ==
    (/\ Compiled
     /\ Cardinality(RootEntries) = 1
     /\ LetteredEntries # {}
     /\ EphemeralEntries # {}) =>
        /\ \A i \in RootEntries : bd_types[i].key = "/dev/sda1"
        /\ \E base \in 0..Len(ascii_lowercase) :
              \A i \in LetteredEntries :
                bd_types[i].key =
                    "sd" \o ascii_lowercase[base + Before(LetteredEntries, i) + 1]
        /\ \A i \in EphemeralEntries :
              /\ bd_types[i].bd.ephemeral_name =
                    "ephemeral" \o ToString(Before(EphemeralEntries, i))
              /\ \E k \in DOMAIN bdm : bdm[k] = bd_types[i].bd

\* C10: for a non-root volume-backed entry with no source, compile calls the
\* volume creation exactly once, with the entry's size and the zone it was
\* given (none when none was given), and the entry's descriptor carries the
\* id of the volume that call returned.
C10_BlankVolumeCreatedOnce ==
    launch_config # NoLaunchConfig =>
        \A i \in DOMAIN bd_types :
            (i \in LetteredEntries /\ BlockDevices[i].source = NoSource) =>
                /\ Cardinality(CallsFor(i)) = 1
                /\ \A c \in CallsFor(i) :
                      /\ calls[c].size = BlockDevices[i].size
                      /\ calls[c].zone = zone_name
                      /\ calls[c].result # "raised"
                      /\ bd_types[i].bd.volume_id = calls[c].result
                      /\ bdm[bd_types[i].key].volume_id = calls[c].result

C10_Witness ==
    /\ Compiled
    /\ zone_name = PlacementZoneName
    /\ \E i, j \in LetteredEntries :
          /\ i < j
          /\ BlockDevices[i].source = NoSource
          /\ BlockDevices[j].source = NoSource
          /\ BlockDevices[i].size # BlockDevices[j].size
          /\ bd_types[i].bd.volume_id = NewVolumeId(1)
          /\ bd_types[j].bd.volume_id = NewVolumeId(2)

\* the run_instances calls made so far
RunCalls == {c \in DOMAIN calls : calls[c].fn = "run_instances"}

\* C11: for a volume-backed entry whose source is a snapshot, the descriptor
\* carries that snapshot's id and no volume id; for one whose source is an
\* existing volume, it carries that volume's id and no snapshot id; in both
\* cases no volume-creation call is made for the entry.
C11_SourcedDescriptors ==
    launch_config # NoLaunchConfig =>
        \A i \in DOMAIN bd_types :
            BlockDevices[i].is_volume =>
                /\ BlockDevices[i].source.type = "Snapshot" =>
                      /\ bd_types[i].bd.snapshot_id = BlockDevices[i].source.id
                      /\ bd_types[i].bd.volume_id = None
                      /\ CallsFor(i) = {}
                /\ BlockDevices[i].source.type = "Volume" =>
                      /\ bd_types[i].bd.volume_id = BlockDevices[i].source.id
                      /\ bd_types[i].bd.snapshot_id = None
                      /\ CallsFor(i) = {}

C11_Witness ==
    /\ Compiled
    /\ \E i, j \in DOMAIN bd_types :
          /\ BlockDevices[i].is_volume
          /\ BlockDevices[j].is_volume
          /\ BlockDevices[i].source = SnapshotSource
          /\ BlockDevices[j].source = VolumeSource
          /\ bd_types[i].bd.snapshot_id = SnapshotSource.id
          /\ bd_types[j].bd.volume_id = VolumeSource.id

\* C12: every launch that reaches the instance-creation step issues exactly
\* one run_instances call, with min_count = max_count = 1, whatever the
\* number of block device entries; the compiled device mapping is passed as
\* one argument of that single call.
C12_SingleRunCall ==
    /\ Cardinality(RunCalls) <= 1
    /\ (pc = "run") => RunCalls = {}
    /\ (pc = "returned") => Cardinality(RunCalls) = 1
    /\ \A c \in RunCalls :
          /\ c = Len(calls)
          /\ calls[c].min_count = 1
          /\ calls[c].max_count = 1
          /\ calls[c].block_device_map = bdm

C12_Witness ==
    /\ pc = "returned"
    /\ launch_config # NoLaunchConfig
    /\ Len(BlockDevices) >= 2
    /\ Cardinality(RunCalls) = 1
    /\ \A c \in RunCalls : calls[c].block_device_map = bdm /\ bdm # EmptyMapping

\* C13: a launch with no launch configuration issues run_instances with no
\* device mapping and no network id, and makes no volume-creation call.
C13_NoConfigNoMapping ==
    launch_config = NoLaunchConfig =>
        /\ CreateVolumeCalls = {}
        /\ (pc \in {"returned", "raised"}) => RunCalls # {}
        /\ \A c \in RunCalls :
              /\ calls[c].block_device_map = NoMapping
              /\ calls[c].subnet_id = None

C13_Witness ==
    /\ launch_config = NoLaunchConfig
    /\ pc = "returned"
    /\ \E c \in RunCalls :
          calls[c].block_device_map = NoMapping /\ calls[c].subnet_id = None

\* C14: the network id passed to run_instances is the first entry of the
\* launch configuration's net_ids when that list is non-empty and none when
\* it is empty; entries after the first never influence the call.
C14_FirstNetId ==
    launch_config # NoLaunchConfig =>
        \A c \in RunCalls :
            calls[c].subnet_id =
                IF launch_config.net_ids = <<>>
                THEN None
                ELSE Head(launch_config.net_ids)

C14_Witness ==
    /\ launch_config # NoLaunchConfig
    /\ pc = "returned"
    /\ Len(launch_config.net_ids) = 2
    /\ launch_config.net_ids[1] # launch_config.net_ids[2]
    /\ \E c \in RunCalls : calls[c].subnet_id = launch_config.net_ids[1]

\* C15: whenever launch returns without raising, it returns a resource that
\* wraps the created instance and carries the requested name; after no
\* outcome of the run_instances call, an empty reservation included, does
\* launch return an unnamed resource or fail on an unassigned result.
C15_ReturnsNamedInstance ==
    \A c \in RunCalls :
        /\ (pc = "returned") =>
              /\ result.instance = INSTANCE_ID
              /\ result.name = InstanceName
        /\ (pc = "raised") => result # "UnboundLocalError"

\* C16: when run_instances fails after the compile has created blank
\* volumes, launch surfaces that failure, makes no second run_instances call
\* and no volume-deletion call: every volume created still exists.
C16_RunFailureLeavesVolumes ==
    \A c \in RunCalls :
        calls[c].result = "raised" =>
            /\ pc = "raised"
            /\ result = "EC2ResponseError"
            /\ RunCalls = {c}
            /\ c = Len(calls)
            /\ \A d \in DOMAIN calls : calls[d].fn # "delete_volume"
            /\ ExistingVolumes = {calls[d].result : d \in CreateVolumeCalls}

C16_Witness ==
    /\ pc = "raised"
    /\ calls # <<>>
    /\ calls[Len(calls)].fn = "run_instances"
    /\ calls[Len(calls)].result = "raised"
    /\ ExistingVolumes = {NewVolumeId(1), NewVolumeId(2)}

\* C17: when a volume-creation call fails while entry k is compiled, the
\* failure is propagated unchanged and the call is not retried; no
\* volume-creation call is made for an entry after k and no run_instances
\* call is made at all.
C17_CreateFailureStops ==
    \A c \in CreateVolumeCalls :
        calls[c].result = "raised" =>
            /\ pc = "raised"
            /\ result = "EC2ResponseError"
            /\ c = Len(calls)
            /\ CallsFor(calls[c].entry) = {c}
            /\ \A d \in CreateVolumeCalls : calls[d].entry <= calls[c].entry
            /\ RunCalls = {}

C17_Witness ==
    /\ pc = "raised"
    /\ \E c \in CreateVolumeCalls :
          /\ calls[c].result = "raised"
          /\ \E j \in DOMAIN BlockDevices :
                /\ j > calls[c].entry
                /\ NeedsNewVolume(BlockDevices[j])
                /\ CallsFor(j) = {}

\* C19: in every launch with a launch configuration, all volume-creation
\* calls come before the single run_instances call, one at a time in the
\* input order of the entries, and each entry causes at most one of them.
C19_VolumesBeforeRun ==
    launch_config # NoLaunchConfig =>
        /\ Cardinality(RunCalls) <= 1
        /\ \A i, j \in DOMAIN calls :
              (i < j /\ calls[j].fn = "create_volume") =>
                  /\ calls[i].fn = "create_volume"
                  /\ calls[i].entry < calls[j].entry

C19_Witness ==
    /\ launch_config # NoLaunchConfig
    /\ pc = "returned"
    /\ Len(calls) = 3
    /\ calls[1].fn = "create_volume"
    /\ calls[2].fn = "create_volume"
    /\ calls[3].fn = "run_instances"
    /\ calls[1].entry < calls[2].entry
    /\ calls[2].entry = 3

\* C20: letters are assigned from f onwards: the first non-root
\* volume-backed entry gets 'sdf' and the k-th gets the k-th letter counting
\* from f; the root entry gets '/dev/sda1' and consumes no letter.
C20_LettersFromF ==
    launch_config # NoLaunchConfig =>
        \A i \in DOMAIN bd_types :
            /\ i \in RootEntries => bd_types[i].key = "/dev/sda1"
            /\ i \in LetteredEntries =>
                  bd_types[i].key =
                      "sd" \o ascii_lowercase[6 + Before(LetteredEntries, i)]

\* the volume-backed entries that have no source at all, root or not
BlankEntries ==
    {i \in DOMAIN BlockDevices :
        BlockDevices[i].is_volume /\ BlockDevices[i].source = NoSource}

\* C21: when compile completes, the number of volume-creation calls equals
\* the number of volume-backed entries with no source at all (root or not);
\* ephemeral entries and entries sourced from a snapshot, an existing volume
\* or a machine image cause no volume-creation call, and a machine-image
\* entry's descriptor carries neither a snapshot id nor a volume id.
C21_CreateCallsCountBlankEntries ==
    Compiled =>
        /\ Cardinality(CreateVolumeCalls) = Cardinality(BlankEntries)
        /\ \A i \in DOMAIN BlockDevices :
              /\ i \notin BlankEntries => CallsFor(i) = {}
              /\ (BlockDevices[i].is_volume /\ BlockDevices[i].source = ImageSource) =>
                    /\ bd_types[i].bd.snapshot_id = None
                    /\ bd_types[i].bd.volume_id = None

C21_Witness ==
    /\ Compiled
    /\ Len(BlockDevices) = 3
    /\ \E i \in RootEntries : i \in BlankEntries
    /\ \E i \in EphemeralEntries : CallsFor(i) = {}
    /\ \E i \in DOMAIN BlockDevices :
          /\ BlockDevices[i].is_volume
          /\ BlockDevices[i].source = ImageSource
          /\ bd_types[i].bd.volume_id = None
    /\ Cardinality(CreateVolumeCalls) = 1

----------------------------------------------------------------------------
(* Properties of the container object's delete *)

\* C18: delete on a container object returns True exactly when the object
\* was deleted successfully: a delete the object store accepts without error
\* returns True, and one that fails with an error other than not-found does
\* not return True.
C18_DeleteReportsSuccess ==
    deleted # NoDelete =>
        /\ ~deleted.outcome.raised => deleted.returned = TRUE
        /\ (deleted.outcome.raised /\ deleted.outcome.http_status # 404) =>
              deleted.returned # TRUE

====
